---------------------------- MODULE Spec2Model ----------------------------
(***************************************************************************)
(* Model of cloudtrail2IAM.py: S3 listing, a bounded thread pool that      *)
(* downloads and parses CloudTrail log objects, the shared ALL_ACTIONS     *)
(* index guarded by a semaphore, and the final filter/print of the index.  *)
(* Python strings are sequences of one-character strings, so that          *)
(* startswith, replace, split, join, lower and "in" are computed the way   *)
(* the interpreter computes them.                                          *)
(***************************************************************************)
EXTENDS Integers, Sequences, FiniteSets, TLC

(***************************************************************************)
(* String literals of the source                                           *)
(***************************************************************************)

StsPrefix ==
    <<"a", "r", "n", ":", "a", "w", "s", ":", "s", "t", "s", ":", ":">>

IamPrefix ==
    <<"a", "r", "n", ":", "a", "w", "s", ":", "i", "a", "m", ":", ":">>

AssumedRole ==
    <<"a", "s", "s", "u", "m", "e", "d", "-", "r", "o", "l", "e">>

Role ==
    <<"r", "o", "l", "e">>

JsonGz ==
    <<".", "j", "s", "o", "n", ".", "g", "z">>

Digest ==
    <<"d", "i", "g", "e", "s", "t">>

Dash ==
    <<" ", "-", " ">>

(***************************************************************************)
(* Character tables: upper/lower case letters (str.lower) and the          *)
(* characters of ARNs, keys and labels in code-point order (the order      *)
(* sorted() compares by).                                                  *)
(***************************************************************************)

UpperChars ==
    <<"A", "B", "C", "D", "E", "F", "G", "H", "I", "J", "K", "L", "M", "N", "O", "P", "Q", "R", "S", "T", "U", "V", "W", "X", "Y", "Z">>

LowerChars ==
    <<"a", "b", "c", "d", "e", "f", "g", "h", "i", "j", "k", "l", "m", "n", "o", "p", "q", "r", "s", "t", "u", "v", "w", "x", "y", "z">>

AsciiOrder ==
    <<" ", "+", ",", "-", ".", "/", "0", "1", "2", "3", "4", "5", "6", "7", "8", "9", ":", "=", "@", "A", "B", "C", "D", "E", "F", "G", "H", "I", "J", "K", "L", "M", "N", "O", "P", "Q", "R", "S", "T", "U", "V", "W", "X", "Y", "Z", "_", "a", "b", "c", "d", "e", "f", "g", "h", "i", "j", "k", "l", "m", "n", "o", "p", "q", "r", "s", "t", "u", "v", "w", "x", "y", "z">>

(***************************************************************************)
(* Input data: ARNs, event sources and names, object keys                  *)
(***************************************************************************)

\* "arn:aws:sts::111122223333:assumed-role/Deploy/sess-1"
ArnSess1 ==
    <<"a", "r", "n", ":", "a", "w", "s", ":", "s", "t", "s", ":", ":", "1", "1", "1", "1", "2", "2", "2", "2", "3", "3", "3", "3", ":", "a", "s", "s", "u", "m", "e", "d", "-", "r", "o", "l", "e", "/", "D", "e", "p", "l", "o", "y", "/", "s", "e", "s", "s", "-", "1">>

\* "arn:aws:sts::111122223333:assumed-role/Deploy/sess-2"
ArnSess2 ==
    <<"a", "r", "n", ":", "a", "w", "s", ":", "s", "t", "s", ":", ":", "1", "1", "1", "1", "2", "2", "2", "2", "3", "3", "3", "3", ":", "a", "s", "s", "u", "m", "e", "d", "-", "r", "o", "l", "e", "/", "D", "e", "p", "l", "o", "y", "/", "s", "e", "s", "s", "-", "2">>

\* "arn:aws:iam::111122223333:role/Deploy"
ArnDeploy ==
    <<"a", "r", "n", ":", "a", "w", "s", ":", "i", "a", "m", ":", ":", "1", "1", "1", "1", "2", "2", "2", "2", "3", "3", "3", "3", ":", "r", "o", "l", "e", "/", "D", "e", "p", "l", "o", "y">>

\* "arn:aws:iam::1:user/alice"
ArnAlice ==
    <<"a", "r", "n", ":", "a", "w", "s", ":", "i", "a", "m", ":", ":", "1", ":", "u", "s", "e", "r", "/", "a", "l", "i", "c", "e">>

\* "arn:aws:sts::1:assumed-role/assumed-role-x/s"
ArnNamedRole ==
    <<"a", "r", "n", ":", "a", "w", "s", ":", "s", "t", "s", ":", ":", "1", ":", "a", "s", "s", "u", "m", "e", "d", "-", "r", "o", "l", "e", "/", "a", "s", "s", "u", "m", "e", "d", "-", "r", "o", "l", "e", "-", "x", "/", "s">>

\* "s3.amazonaws.com"
SrcS3 ==
    <<"s", "3", ".", "a", "m", "a", "z", "o", "n", "a", "w", "s", ".", "c", "o", "m">>

\* "ec2.amazonaws.com"
SrcEc2 ==
    <<"e", "c", "2", ".", "a", "m", "a", "z", "o", "n", "a", "w", "s", ".", "c", "o", "m">>

\* "iam.amazonaws.com"
SrcIam ==
    <<"i", "a", "m", ".", "a", "m", "a", "z", "o", "n", "a", "w", "s", ".", "c", "o", "m">>

\* "GetObject"
GetObject ==
    <<"G", "e", "t", "O", "b", "j", "e", "c", "t">>

\* "RunInstances"
RunInstances ==
    <<"R", "u", "n", "I", "n", "s", "t", "a", "n", "c", "e", "s">>

\* "ListUsers"
ListUsers ==
    <<"L", "i", "s", "t", "U", "s", "e", "r", "s">>

\* "s3 - GetObject"
LabelS3Get ==
    <<"s", "3", " ", "-", " ", "G", "e", "t", "O", "b", "j", "e", "c", "t">>

\* "ec2 - RunInstances"
LabelEc2Run ==
    <<"e", "c", "2", " ", "-", " ", "R", "u", "n", "I", "n", "s", "t", "a", "n", "c", "e", "s">>

\* "iam - ListUsers"
LabelIamList ==
    <<"i", "a", "m", " ", "-", " ", "L", "i", "s", "t", "U", "s", "e", "r", "s">>

\* "logs/CloudTrail-Digest-2024.json.gz"
KeyDigest ==
    <<"l", "o", "g", "s", "/", "C", "l", "o", "u", "d", "T", "r", "a", "i", "l", "-", "D", "i", "g", "e", "s", "t", "-", "2", "0", "2", "4", ".", "j", "s", "o", "n", ".", "g", "z">>

\* "logs/a.json.gz"
KeyA ==
    <<"l", "o", "g", "s", "/", "a", ".", "j", "s", "o", "n", ".", "g", "z">>

\* "logs/archive.json.gz"
KeyArchive ==
    <<"l", "o", "g", "s", "/", "a", "r", "c", "h", "i", "v", "e", ".", "j", "s", "o", "n", ".", "g", "z">>

\* "logs/b.json.gz"
KeyB ==
    <<"l", "o", "g", "s", "/", "b", ".", "j", "s", "o", "n", ".", "g", "z">>

\* "logs/c.json.gz"
KeyC ==
    <<"l", "o", "g", "s", "/", "c", ".", "j", "s", "o", "n", ".", "g", "z">>

\* "logs/d.json.gz"
KeyD ==
    <<"l", "o", "g", "s", "/", "d", ".", "j", "s", "o", "n", ".", "g", "z">>

\* "logs/data.txt"
KeyDataTxt ==
    <<"l", "o", "g", "s", "/", "d", "a", "t", "a", ".", "t", "x", "t">>

\* "logs/e.json.gz"
KeyE ==
    <<"l", "o", "g", "s", "/", "e", ".", "j", "s", "o", "n", ".", "g", "z">>

\* "logs/f.json.gz"
KeyF ==
    <<"l", "o", "g", "s", "/", "f", ".", "j", "s", "o", "n", ".", "g", "z">>

\* "logs/g.json.gz"
KeyG ==
    <<"l", "o", "g", "s", "/", "g", ".", "j", "s", "o", "n", ".", "g", "z">>

\* "logs/h.json.gz.bak"
KeyMiddle ==
    <<"l", "o", "g", "s", "/", "h", ".", "j", "s", "o", "n", ".", "g", "z", ".", "b", "a", "k">>

\* "alice"
NameAlice ==
    <<"a", "l", "i", "c", "e">>

\* "deploy"
NameDeployLower ==
    <<"d", "e", "p", "l", "o", "y">>

\* "Deploy"
NameDeploy ==
    <<"D", "e", "p", "l", "o", "y">>

(***************************************************************************)
(* Python string operations                                                *)
(***************************************************************************)

\* str.startswith
StartsWith(s, p) ==
    /\ Len(s) >= Len(p)
    /\ SubSeq(s, 1, Len(p)) = p

\* str.endswith
EndsWith(s, p) ==
    /\ Len(s) >= Len(p)
    /\ SubSeq(s, Len(s) - Len(p) + 1, Len(s)) = p

\* "sub in s"
Contains(s, sub) ==
    \E i \in 1..(Len(s) - Len(sub) + 1) : SubSeq(s, i, i + Len(sub) - 1) = sub

\* str.replace(old, new): every non-overlapping occurrence, leftmost first
RECURSIVE Replace(_, _, _)
Replace(s, old, new) ==
    IF Len(s) < Len(old) THEN s
    ELSE IF StartsWith(s, old)
         THEN new \o Replace(SubSeq(s, Len(old) + 1, Len(s)), old, new)
         ELSE <<Head(s)>> \o Replace(Tail(s), old, new)

\* str.split(sep) for a one-character separator: always at least one segment
RECURSIVE Split(_, _)
Split(s, sep) ==
    IF \A i \in 1..Len(s) : s[i] # sep THEN <<s>>
    ELSE LET k == CHOOSE i \in 1..Len(s) :
                     s[i] = sep /\ \A j \in 1..(i - 1) : s[j] # sep
         IN  <<SubSeq(s, 1, k - 1)>> \o Split(SubSeq(s, k + 1, Len(s)), sep)

\* sep.join(segs)
RECURSIVE Join(_, _)
Join(segs, sep) ==
    IF Len(segs) = 0 THEN <<>>
    ELSE IF Len(segs) = 1 THEN segs[1]
    ELSE segs[1] \o <<sep>> \o Join(Tail(segs), sep)

\* segs[:n]
Slice(segs, n) ==
    SubSeq(segs, 1, IF Len(segs) < n THEN Len(segs) ELSE n)

\* str.lower
LowerChar(c) ==
    IF \E i \in 1..Len(UpperChars) : UpperChars[i] = c
    THEN LowerChars[CHOOSE i \in 1..Len(UpperChars) : UpperChars[i] = c]
    ELSE c

Lower(s) ==
    [i \in 1..Len(s) |-> LowerChar(s[i])]

\* code point order of two characters, and of two strings (as sorted() uses)
Ord(c) ==
    CHOOSE i \in 1..Len(AsciiOrder) : AsciiOrder[i] = c

RECURSIVE StrLess(_, _)
StrLess(a, b) ==
    IF Len(b) = 0 THEN FALSE
    ELSE IF Len(a) = 0 THEN TRUE
    ELSE IF a[1] # b[1] THEN Ord(a[1]) < Ord(b[1])
    ELSE StrLess(Tail(a), Tail(b))

\* sorted(actions): the labels of a set in ascending order
RECURSIVE sorted(_)
sorted(S) ==
    IF S = {} THEN <<>>
    ELSE LET m == CHOOSE x \in S : \A y \in S \ {x} : StrLess(x, y)
         IN  <<m>> \o sorted(S \ {m})

(***************************************************************************)
(* fix_arn (lines 23-30)                                                   *)
(***************************************************************************)

\* variant of fix_arn: the prefix is left as it is (line 26 missing)
fix_arnKeepPrefix(arn) ==
    IF StartsWith(arn, StsPrefix)
    THEN Join(Slice(Split(Replace(arn, AssumedRole, Role), "/"), 2), "/")
    ELSE arn

fix_arn(arn) ==
    IF StartsWith(arn, StsPrefix)
    THEN Join(Slice(Split(Replace(Replace(arn, StsPrefix, IamPrefix),
                                  AssumedRole, Role), "/"), 2), "/")
    ELSE arn

(***************************************************************************)
(* CloudTrail records, documents and the objects of the bucket             *)
(***************************************************************************)

\* a record carrying userIdentity.arn, eventSource and eventName
Rec(arn, src, name) ==
    [hasUserIdentity |-> TRUE, hasArn |-> TRUE, arn |-> arn,
     hasEventSource |-> TRUE, eventSource |-> src,
     hasEventName |-> TRUE, eventName |-> name]

\* a record without the userIdentity key
RecNoIdentity(src, name) ==
    [Rec(<<>>, src, name) EXCEPT !.hasUserIdentity = FALSE, !.hasArn = FALSE]

\* a record whose userIdentity object has no arn key
RecNoArn(src, name) ==
    [Rec(<<>>, src, name) EXCEPT !.hasArn = FALSE]

\* a record with userIdentity.arn but without the eventSource key
RecNoSource(arn, name) ==
    [Rec(arn, <<>>, name) EXCEPT !.hasEventSource = FALSE]

\* what download_file and gzip.open/json.load give for an object
Doc(records) ==
    [kind |-> "doc", hasRecords |-> TRUE, Records |-> records]

DocNoRecords ==
    [kind |-> "doc", hasRecords |-> FALSE, Records |-> <<>>]

FetchFails ==
    [kind |-> "fetch_error", hasRecords |-> FALSE, Records |-> <<>>]

BadJson ==
    [kind |-> "bad_json", hasRecords |-> FALSE, Records |-> <<>>]

\* the objects under the prefix, in the key order in which S3 lists them
Store ==
    << [Key |-> KeyDigest,  body |-> Doc(<<Rec(ArnAlice, SrcIam, ListUsers)>>)],
       [Key |-> KeyA,       body |-> Doc(<<Rec(ArnSess1, SrcS3, GetObject),
                                           Rec(ArnSess2, SrcEc2, RunInstances)>>)],
       [Key |-> KeyArchive, body |-> Doc(<<Rec(ArnSess2, SrcS3, GetObject),
                                           Rec(ArnAlice, SrcS3, GetObject)>>)],
       [Key |-> KeyB,       body |-> FetchFails],
       [Key |-> KeyC,       body |-> BadJson],
       [Key |-> KeyD,       body |-> Doc(<<Rec(ArnSess1, SrcIam, ListUsers),
                                           RecNoSource(ArnAlice, GetObject)>>)],
       [Key |-> KeyDataTxt, body |-> Doc(<<Rec(ArnAlice, SrcEc2, RunInstances)>>)],
       [Key |-> KeyE,       body |-> DocNoRecords],
       [Key |-> KeyF,       body |-> Doc(<<RecNoIdentity(SrcS3, GetObject),
                                           RecNoArn(SrcS3, GetObject),
                                           Rec(ArnAlice, SrcEc2, RunInstances)>>)],
       [Key |-> KeyG,       body |-> Doc(<<Rec(<<>>, SrcS3, GetObject)>>)],
       [Key |-> KeyMiddle,  body |-> Doc(<<Rec(ArnAlice, SrcIam, ListUsers)>>)] >>

\* values of --filter-name; <<>> stands for an absent (or empty) filter
TargetNames ==
    {<<>>, NameAlice, NameDeploy, NameDeployLower}

(***************************************************************************)
(* Bounds of the model                                                     *)
(***************************************************************************)

\* most objects one listing returns
MaxObjects == 2

\* largest value of --threads
MaxThreads == 2

\* MaxKeys of list_objects_v2 (line 56)
MaxKeys == 1000

\* variant of SemaphoreInit: a semaphore with two permits
SemaphoreTwo == 1 + 1

\* initial value of Semaphore() (line 12)
SemaphoreInit == 1

(***************************************************************************)
(* dict operations on ALL_ACTIONS, an insertion-ordered sequence of        *)
(* [arn, actions] entries with distinct arns                               *)
(***************************************************************************)

DictHas(d, k) ==
    \E j \in 1..Len(d) : d[j].arn = k

DictPos(d, k) ==
    CHOOSE j \in 1..Len(d) : d[j].arn = k

DictKeys(d) ==
    {d[j].arn : j \in 1..Len(d)}

\* d[k] for a key that is present
DictItem(d, k) ==
    d[DictPos(d, k)].actions

\* truth value of d.get(k): False for a missing key and for an empty set
DictGetTruthy(d, k) ==
    DictHas(d, k) /\ DictItem(d, k) # {}

\* d[k] = v
DictSet(d, k, v) ==
    IF DictHas(d, k)
    THEN [d EXCEPT ![DictPos(d, k)].actions = v]
    ELSE Append(d, [arn |-> k, actions |-> v])

\* variant of DictAdd: the set is replaced instead of extended
DictAddOverwrite(d, k, a) ==
    [d EXCEPT ![DictPos(d, k)].actions = {a}]

\* d[k].add(a) for a key that is present
DictAdd(d, k, a) ==
    [d EXCEPT ![DictPos(d, k)].actions = @ \cup {a}]

\* variant of merge: line 46 is executed whether or not the arn is known
mergeAlwaysSet(d, arn, action) ==
    DictSet(d, arn, {action})

\* lines 45-48 as one function of the index
merge(d, arn, action) ==
    IF ~DictGetTruthy(d, arn)
    THEN DictSet(d, arn, {action})
    ELSE DictAdd(d, arn, action)

\* variant of HasIdentity: only the userIdentity key is tested
HasIdentityNoArnCheck(record) ==
    record.hasUserIdentity

\* line 41
HasIdentity(record) ==
    record.hasUserIdentity /\ record.hasArn

\* line 43: both keys are read, a missing one raises KeyError
HasEvent(record) ==
    record.hasEventSource /\ record.hasEventName

\* line 43
ActionLabel(record) ==
    Split(record.eventSource, ".")[1] \o Dash \o record.eventName

\* line 67: TRUE when process_log_object returns without downloading
Skipped(log_key) ==
    ~Contains(log_key, JsonGz) \/ Contains(Lower(log_key), Digest)

(***************************************************************************)
(* State                                                                   *)
(***************************************************************************)

VARIABLES
    main_pc,       \* position of main()
    main_exc,      \* exception propagating out of main(), "none" if none
    logs_list,     \* indices into Store of the objects listed so far
    threads,       \* max_workers of the executor, 0 before it exists
    futures,       \* state of the future of each submitted object
    work_queue,    \* submitted objects no worker has taken yet
    collected,     \* futures whose result() returned in the loop of line 94
    worker,        \* per worker thread: position and locals
    semaphore,     \* counter of the semaphore of line 12
    ALL_ACTIONS,   \* the shared index: the dict the global name is bound to
    index_object,  \* the dict object created at line 11, which the workers fill
    pages_read,    \* pages the loop of line 56 has received so far
    target_name,   \* --filter-name
    output,        \* what lines 105-109 print: per arn its sorted actions
    fetch_count,   \* history: download_file calls per listed object
    run_count,     \* history: process_log_object calls per listed object
    extract_count, \* history: extract_actions_from_log_file calls per object
    merged,        \* history: (arn, action) pairs each object merged
    call           \* a single call of fix_arn or of the merge of lines 45-48,
                   \* with its arguments and results; "none" during a run

run_vars ==
    <<main_pc, main_exc, logs_list, threads, futures, work_queue, collected,
      worker, semaphore, ALL_ACTIONS, index_object, pages_read, target_name,
      output, fetch_count, run_count, extract_count, merged>>

vars ==
    <<run_vars, call>>

NoCall ==
    [pc |-> "none"]

Workers ==
    1..MaxThreads

IdleWorker ==
    [pc |-> "idle", obj |-> 0, idx |-> 0, arn |-> <<>>, action |-> <<>>,
     found |-> FALSE]

Finished ==
    {"finished_ok", "finished_exc"}

\* the object a future was submitted for
Object(i) ==
    Store[logs_list[i]]

\* data.get('Records', [])
RecordsOf(i) ==
    IF Object(i).body.hasRecords THEN Object(i).body.Records ELSE <<>>

\* lines 42-43 for every record of the store that has the keys they read:
\* arn = fix_arn(...), action = ... + " - " + ..., tabulated once
StoreRecordPairs ==
    [n \in 1..Len(Store) |->
        [m \in 1..Len(Store[n].body.Records) |->
            IF HasIdentity(Store[n].body.Records[m])
               /\ HasEvent(Store[n].body.Records[m])
            THEN [arn |-> fix_arn(Store[n].body.Records[m].arn),
                  action |-> ActionLabel(Store[n].body.Records[m])]
            ELSE [arn |-> <<>>, action |-> <<>>]]]

\* lines 42-43 for record idx of listed object i
RecordPair(i, idx) ==
    StoreRecordPairs[logs_list[i]][idx]

\* line 67 for every object of the store, tabulated once
StoreSkipped ==
    [n \in 1..Len(Store) |-> Skipped(Store[n].Key)]

\* line 67 for listed object i
ObjectSkipped(i) ==
    StoreSkipped[logs_list[i]]

RunInit ==
    /\ main_pc = "list"
    /\ main_exc = "none"
    /\ logs_list = <<>>
    /\ threads = 0
    /\ futures = <<>>
    /\ work_queue = <<>>
    /\ collected = {}
    /\ worker = [w \in Workers |-> IdleWorker]
    /\ semaphore = SemaphoreInit
    /\ ALL_ACTIONS = <<>>
    /\ index_object = <<>>
    /\ pages_read = 0
    /\ target_name = <<>>
    /\ output = <<>>
    /\ fetch_count = <<>>
    /\ run_count = <<>>
    /\ extract_count = <<>>
    /\ merged = <<>>

Init ==
    /\ RunInit
    /\ call = NoCall

(***************************************************************************)
(* main(), lines 74-109                                                    *)
(***************************************************************************)

\* the pages the paginator can return next: the store lists keys in order
NextPages ==
    LET last == IF logs_list = <<>> THEN 0 ELSE logs_list[Len(logs_list)]
        room == MaxObjects - Len(logs_list)
        rest == (last + 1)..Len(Store)
        RECURSIVE Ascending(_)
        Ascending(S) ==
            IF S = {} THEN <<>>
            ELSE LET m == CHOOSE x \in S : \A y \in S : x <= y
                 IN  <<m>> \o Ascending(S \ {m})
    IN  {Ascending(S) : S \in {T \in SUBSET rest :
                                  /\ T # {}
                                  /\ Cardinality(T) <= room
                                  /\ Cardinality(T) <= MaxKeys}}

\* lines 56-59: one page with Contents is appended
ListPage ==
    /\ main_pc = "list"
    /\ \E page \in NextPages : logs_list' = logs_list \o page
    /\ pages_read' = pages_read + 1
    /\ UNCHANGED <<call, index_object, extract_count, main_pc, main_exc, threads, futures, work_queue, collected,
                   worker, semaphore, ALL_ACTIONS, target_name, output,
                   fetch_count, run_count, merged>>

\* variant of ListFail: the rejection is noted, the objects listed so far
\* are returned and processed
ListFailContinue ==
    /\ main_pc = "list"
    /\ main_pc' = "submit"
    /\ main_exc' = "listing"
    /\ threads' = 1
    /\ pages_read' = 0
    /\ UNCHANGED <<call, index_object, logs_list, futures, work_queue,
                   collected, worker, semaphore, ALL_ACTIONS, target_name,
                   output, fetch_count, run_count, extract_count, merged>>

\* line 56: the store rejects a page; the exception leaves get_all_keys and
\* main, and the list built so far is dropped with the frame
ListFail ==
    /\ main_pc = "list"
    /\ main_pc' = "crashed"
    /\ main_exc' = "listing"
    /\ logs_list' = <<>>
    /\ UNCHANGED <<call, index_object, pages_read, extract_count, threads, futures, work_queue, collected, worker, semaphore,
                   ALL_ACTIONS, target_name, output, fetch_count, run_count,
                   merged>>

\* lines 61-62 and 92: the listing is returned (the page loop and its
\* count are over) and the executor is created
ListDone ==
    /\ main_pc = "list"
    /\ \E n \in 1..MaxThreads : threads' = n
    /\ main_pc' = "submit"
    /\ pages_read' = 0
    /\ UNCHANGED <<call, index_object, extract_count, main_exc, logs_list, futures, work_queue, collected, worker,
                   semaphore, ALL_ACTIONS, target_name, output, fetch_count,
                   run_count, merged>>

\* line 93: executor.submit for the next object of logs_list
Submit ==
    /\ main_pc = "submit"
    /\ Len(futures) < Len(logs_list)
    /\ futures' = Append(futures, "pending")
    /\ work_queue' = Append(work_queue, Len(futures) + 1)
    /\ fetch_count' = Append(fetch_count, 0)
    /\ run_count' = Append(run_count, 0)
    /\ merged' = Append(merged, {})
    /\ extract_count' = Append(extract_count, 0)
    /\ UNCHANGED <<call, index_object, pages_read, main_pc, main_exc, logs_list, threads, collected, worker,
                   semaphore, ALL_ACTIONS, target_name, output>>

\* line 93 done: the list of futures is complete
SubmitDone ==
    /\ main_pc = "submit"
    /\ Len(futures) = Len(logs_list)
    /\ main_pc' = "collect"
    /\ UNCHANGED <<call, index_object, pages_read, extract_count, main_exc, logs_list, threads, futures, work_queue, collected,
                   worker, semaphore, ALL_ACTIONS, target_name, output,
                   fetch_count, run_count, merged>>

\* variant of Collect: the exception of a failed task is caught, the loop
\* is left and the report follows without waiting for the other tasks
CollectCatchAndReport ==
    /\ main_pc = "collect"
    /\ \E i \in 1..Len(futures) :
          /\ i \notin collected
          /\ futures[i] \in Finished
          /\ IF futures[i] = "finished_exc"
             THEN /\ main_pc' = "filter"
                  /\ UNCHANGED <<collected, main_exc>>
             ELSE /\ collected' = collected \cup {i}
                  /\ UNCHANGED <<main_pc, main_exc>>
    /\ UNCHANGED <<call, index_object, pages_read, extract_count, logs_list, threads, futures, work_queue, worker, semaphore,
                   ALL_ACTIONS, target_name, output, fetch_count, run_count,
                   merged>>

\* lines 94-95: as_completed yields a finished future, result() is called;
\* the exception of a failed task is raised in main and leaves the loop
Collect ==
    /\ main_pc = "collect"
    /\ \E i \in 1..Len(futures) :
          /\ i \notin collected
          /\ futures[i] \in Finished
          /\ IF futures[i] = "finished_exc"
             THEN /\ main_exc' = "task"
                  /\ main_pc' = "shutdown"
                  /\ UNCHANGED collected
             ELSE /\ collected' = collected \cup {i}
                  /\ UNCHANGED <<main_pc, main_exc>>
    /\ UNCHANGED <<call, index_object, pages_read, extract_count, logs_list, threads, futures, work_queue, worker, semaphore,
                   ALL_ACTIONS, target_name, output, fetch_count, run_count,
                   merged>>

\* line 94: as_completed is exhausted
CollectDone ==
    /\ main_pc = "collect"
    /\ collected = 1..Len(futures)
    /\ main_pc' = "shutdown"
    /\ UNCHANGED <<call, index_object, pages_read, extract_count, main_exc, logs_list, threads, futures, work_queue, collected,
                   worker, semaphore, ALL_ACTIONS, target_name, output,
                   fetch_count, run_count, merged>>

\* variant of Shutdown: the with block is left without waiting for the
\* tasks that are queued or running
ShutdownNoWait ==
    /\ main_pc = "shutdown"
    /\ main_pc' = IF main_exc = "task" THEN "crashed" ELSE "filter"
    /\ UNCHANGED <<call, index_object, pages_read, extract_count, main_exc, logs_list, threads, futures,
                   work_queue, collected, worker, semaphore, ALL_ACTIONS,
                   target_name, output, fetch_count, run_count, merged>>

\* line 92, leaving the with block: shutdown(wait=True) returns once the
\* workers have run every queued task; a pending exception then leaves main
Shutdown ==
    /\ main_pc = "shutdown"
    /\ \A i \in 1..Len(futures) : futures[i] \in Finished
    /\ main_pc' = IF main_exc = "task" THEN "crashed" ELSE "filter"
    /\ UNCHANGED <<call, index_object, pages_read, extract_count, main_exc, logs_list, threads, futures, work_queue, collected,
                   worker, semaphore, ALL_ACTIONS, target_name, output,
                   fetch_count, run_count, merged>>

\* variant of FilterByName: the entries that do not match are deleted from
\* the dict of line 11 itself
FilterByNameInPlace ==
    /\ main_pc = "filter"
    /\ \E t \in TargetNames :
          /\ target_name' = t
          /\ ALL_ACTIONS' =
                IF t # <<>>
                THEN SelectSeq(ALL_ACTIONS, LAMBDA e : Contains(e.arn, t))
                ELSE ALL_ACTIONS
    /\ main_pc' = "print"
    /\ index_object' = ALL_ACTIONS'
    /\ UNCHANGED <<call, pages_read, extract_count, main_exc, logs_list, threads, futures, work_queue, collected,
                   worker, semaphore, output, fetch_count, run_count, merged>>

\* lines 98-103: with a filter name, ALL_ACTIONS is rebound to a new dict
\* with the entries whose arn contains it; the dict of line 11 is only read
FilterByName ==
    /\ main_pc = "filter"
    /\ \E t \in TargetNames :
          /\ target_name' = t
          /\ ALL_ACTIONS' =
                IF t # <<>>
                THEN SelectSeq(ALL_ACTIONS, LAMBDA e : Contains(e.arn, t))
                ELSE ALL_ACTIONS
    /\ main_pc' = "print"
    /\ UNCHANGED <<call, index_object, pages_read, extract_count, main_exc, logs_list, threads, futures, work_queue, collected,
                   worker, semaphore, output, fetch_count, run_count, merged>>

\* lines 105-109
PrintReport ==
    /\ main_pc = "print"
    /\ output' = [j \in 1..Len(ALL_ACTIONS) |->
                     [arn |-> ALL_ACTIONS[j].arn,
                      actions |-> sorted(ALL_ACTIONS[j].actions)]]
    /\ main_pc' = "done"
    /\ UNCHANGED <<call, index_object, pages_read, extract_count, main_exc, logs_list, threads, futures, work_queue, collected,
                   worker, semaphore, ALL_ACTIONS, target_name,
                   fetch_count, run_count, merged>>

(***************************************************************************)
(* Worker threads of the executor: process_log_object (lines 64-72) and    *)
(* extract_actions_from_log_file (lines 33-48)                             *)
(***************************************************************************)

\* lines 98-103 have bound the global name ALL_ACTIONS to a new dict
Rebound ==
    main_pc \in {"print", "done"} /\ target_name # <<>>

\* the task of worker w ends: its future is resolved, the worker is free
Finish(w, state) ==
    /\ futures' = [futures EXCEPT ![worker[w].obj] = state]
    /\ worker' = [worker EXCEPT ![w] = IdleWorker]

\* variant of TakeWork: the pool starts a thread for a queued task even
\* when max_workers threads exist
TakeWorkUnbounded(w) ==
    /\ worker[w].pc = "idle"
    /\ \A v \in 1..(w - 1) : worker[v].pc # "idle"
    /\ work_queue # <<>>
    /\ LET i == Head(work_queue)
       IN  /\ work_queue' = Tail(work_queue)
           /\ run_count' = [run_count EXCEPT ![i] = @ + 1]
           /\ IF ObjectSkipped(i)
              THEN /\ futures' = [futures EXCEPT ![i] = "finished_ok"]
                   /\ UNCHANGED worker
              ELSE /\ futures' = [futures EXCEPT ![i] = "running"]
                   /\ worker' = [worker EXCEPT ![w] =
                                    [IdleWorker EXCEPT !.pc = "download",
                                                       !.obj = i]]
    /\ UNCHANGED <<call, index_object, pages_read, extract_count, main_pc, main_exc, logs_list, threads, collected, semaphore,
                   ALL_ACTIONS, target_name, output, fetch_count, merged>>

\* a free worker takes the oldest queued task and runs lines 66-68; the
\* threads of the pool are interchangeable, the free one with the lowest
\* number stands for whichever of them gets the task
TakeWork(w) ==
    /\ w <= threads
    /\ worker[w].pc = "idle"
    /\ \A v \in 1..(w - 1) : worker[v].pc # "idle"
    /\ work_queue # <<>>
    /\ LET i == Head(work_queue)
       IN  /\ work_queue' = Tail(work_queue)
           /\ run_count' = [run_count EXCEPT ![i] = @ + 1]
           /\ IF ObjectSkipped(i)
              THEN /\ futures' = [futures EXCEPT ![i] = "finished_ok"]
                   /\ UNCHANGED worker
              ELSE /\ futures' = [futures EXCEPT ![i] = "running"]
                   /\ worker' = [worker EXCEPT ![w] =
                                    [IdleWorker EXCEPT !.pc = "download",
                                                       !.obj = i]]
    /\ UNCHANGED <<call, index_object, pages_read, extract_count, main_pc, main_exc, logs_list, threads, collected, semaphore,
                   ALL_ACTIONS, target_name, output, fetch_count, merged>>

\* lines 70-71: download_file returns or raises
Download(w) ==
    /\ worker[w].pc = "download"
    /\ fetch_count' = [fetch_count EXCEPT ![worker[w].obj] = @ + 1]
    /\ IF Object(worker[w].obj).body.kind = "fetch_error"
       THEN Finish(w, "finished_exc")
       ELSE /\ worker' = [worker EXCEPT ![w].pc = "load"]
            /\ UNCHANGED futures
    /\ UNCHANGED <<call, index_object, pages_read, extract_count, main_pc, main_exc, logs_list, threads, work_queue, collected,
                   semaphore, ALL_ACTIONS, target_name, output, run_count,
                   merged>>

\* lines 38-40: gzip.open and json.load return the document or raise
Load(w) ==
    /\ worker[w].pc = "load"
    /\ IF Object(worker[w].obj).body.kind = "bad_json"
       THEN Finish(w, "finished_exc")
       ELSE /\ worker' = [worker EXCEPT ![w].pc = "record", ![w].idx = 1]
            /\ UNCHANGED futures
    /\ extract_count' = [extract_count EXCEPT ![worker[w].obj] = @ + 1]
    /\ UNCHANGED <<call, index_object, pages_read, main_pc, main_exc, logs_list, threads, work_queue, collected,
                   semaphore, ALL_ACTIONS, target_name, output, fetch_count,
                   run_count, merged>>

\* lines 40-43: the next record of the loop, up to the semaphore
NextRecord(w) ==
    /\ worker[w].pc = "record"
    /\ LET records == RecordsOf(worker[w].obj)
           idx == worker[w].idx
       IN  IF idx > Len(records)
           THEN Finish(w, "finished_ok")
           ELSE IF HasIdentity(records[idx])
           THEN IF HasEvent(records[idx])
                THEN /\ worker' = [worker EXCEPT
                                     ![w].pc = "acquire",
                                     ![w].arn = RecordPair(worker[w].obj, idx).arn,
                                     ![w].action = RecordPair(worker[w].obj, idx).action]
                     /\ UNCHANGED futures
                ELSE Finish(w, "finished_exc")
           ELSE /\ worker' = [worker EXCEPT ![w].idx = idx + 1]
                /\ UNCHANGED futures
    /\ UNCHANGED <<call, index_object, pages_read, extract_count, main_pc, main_exc, logs_list, threads, work_queue, collected,
                   semaphore, ALL_ACTIONS, target_name, output, fetch_count,
                   run_count, merged>>

\* variant of Acquire: the counter is decremented without waiting for a
\* permit
AcquireNoWait(w) ==
    /\ worker[w].pc = "acquire"
    /\ semaphore' = semaphore - 1
    /\ worker' = [worker EXCEPT ![w].pc = "check"]
    /\ UNCHANGED <<call, index_object, pages_read, extract_count, main_pc, main_exc, logs_list, threads, futures, work_queue,
                   collected, ALL_ACTIONS, target_name, output, fetch_count,
                   run_count, merged>>

\* line 44: semaphore.acquire()
Acquire(w) ==
    /\ worker[w].pc = "acquire"
    /\ semaphore > 0
    /\ semaphore' = semaphore - 1
    /\ worker' = [worker EXCEPT ![w].pc = "check"]
    /\ UNCHANGED <<call, index_object, pages_read, extract_count, main_pc, main_exc, logs_list, threads, futures, work_queue,
                   collected, ALL_ACTIONS, target_name, output, fetch_count,
                   run_count, merged>>

\* line 45: ALL_ACTIONS.get(arn) is read and tested
Check(w) ==
    /\ worker[w].pc = "check"
    /\ worker' = [worker EXCEPT
                    ![w].pc = "insert",
                    ![w].found = DictGetTruthy(ALL_ACTIONS, worker[w].arn)]
    /\ UNCHANGED <<call, index_object, pages_read, extract_count, main_pc, main_exc, logs_list, threads, futures, work_queue,
                   collected, semaphore, ALL_ACTIONS, target_name, output,
                   fetch_count, run_count, merged>>

\* line 46 or line 48, on the dict the global name is bound to
Insert(w) ==
    /\ worker[w].pc = "insert"
    /\ ALL_ACTIONS' =
          IF ~worker[w].found
          THEN DictSet(ALL_ACTIONS, worker[w].arn, {worker[w].action})
          ELSE DictAdd(ALL_ACTIONS, worker[w].arn, worker[w].action)
    /\ merged' = [merged EXCEPT ![worker[w].obj] =
                     @ \cup {<<worker[w].arn, worker[w].action>>}]
    /\ worker' = [worker EXCEPT ![w].pc = "release"]
    /\ index_object' = IF Rebound THEN index_object ELSE ALL_ACTIONS'
    /\ UNCHANGED <<call, pages_read, extract_count, main_pc, main_exc, logs_list, threads, futures, work_queue,
                   collected, semaphore, target_name, output, fetch_count,
                   run_count>>

\* variant of Release: the with block is left without release()
ReleaseKeepsPermit(w) ==
    /\ worker[w].pc = "release"
    /\ semaphore' = semaphore
    /\ worker' = [worker EXCEPT ![w].pc = "record",
                                ![w].idx = worker[w].idx + 1]
    /\ UNCHANGED <<call, index_object, pages_read, extract_count, main_pc, main_exc, logs_list, threads, futures, work_queue,
                   collected, ALL_ACTIONS, target_name, output, fetch_count,
                   run_count, merged>>

\* leaving the with block of line 44: semaphore.release(), next record
Release(w) ==
    /\ worker[w].pc = "release"
    /\ semaphore' = semaphore + 1
    /\ worker' = [worker EXCEPT ![w].pc = "record",
                                ![w].idx = worker[w].idx + 1]
    /\ UNCHANGED <<call, index_object, pages_read, extract_count, main_pc, main_exc, logs_list, threads, futures, work_queue,
                   collected, ALL_ACTIONS, target_name, output, fetch_count,
                   run_count, merged>>

WorkerStep(w) ==
    \/ TakeWork(w)
    \/ Download(w)
    \/ Load(w)
    \/ NextRecord(w)
    \/ Acquire(w)
    \/ Check(w)
    \/ Insert(w)
    \/ Release(w)

Next ==
    \/ ListPage
    \/ ListFail
    \/ ListDone
    \/ Submit
    \/ SubmitDone
    \/ Collect
    \/ CollectDone
    \/ Shutdown
    \/ FilterByName
    \/ PrintReport
    \/ \E w \in Workers : WorkerStep(w)

Spec ==
    Init /\ [][Next]_vars

\* the steps of the main thread
MainStep ==
    \/ ListPage
    \/ ListFail
    \/ ListDone
    \/ Submit
    \/ SubmitDone
    \/ Collect
    \/ CollectDone
    \/ Shutdown
    \/ FilterByName
    \/ PrintReport

\* the run under a fair scheduler: a thread that can take a step is not
\* left waiting for ever, and every call to the store returns or raises
FairSpec ==
    /\ Init
    /\ [][Next]_vars
    /\ WF_vars(MainStep)
    /\ \A w \in Workers : WF_vars(WorkerStep(w))

(***************************************************************************)
(* fix_arn called on its own: the argument is drawn from ArnInputs         *)
(***************************************************************************)

\* longest run of pieces after the head of a generated ARN
MaxPieces == 5

\* all sequences over S of length at most n
SeqsUpTo(S, n) ==
    UNION {[1..k -> S] : k \in 0..n}

RECURSIVE Flatten(_)
Flatten(ss) ==
    IF Len(ss) = 0 THEN <<>> ELSE Head(ss) \o Flatten(Tail(ss))

ArnHeads ==
    {<<>>, StsPrefix, StsPrefix \o <<"1", ":">>, IamPrefix \o <<"1", ":">>}

ArnPieces ==
    {AssumedRole, <<"/">>, <<"D">>, StsPrefix}

ArnInputs ==
    {h \o Flatten(b) : h \in ArnHeads, b \in SeqsUpTo(ArnPieces, MaxPieces)}
        \cup {ArnSess1, ArnSess2, ArnAlice, ArnNamedRole}

FixInit ==
    /\ RunInit
    /\ call \in {[pc |-> "fix_call", arn |-> a, out |-> <<>>] : a \in ArnInputs}

\* lines 23-30
FixArnCall ==
    /\ call.pc = "fix_call"
    /\ call' = [call EXCEPT !.pc = "fix_ret", !.out = fix_arn(call.arn)]
    /\ UNCHANGED run_vars

FixNext ==
    FixArnCall

SpecFix ==
    FixInit /\ [][FixNext]_vars

(***************************************************************************)
(* The merge of lines 45-48 called on its own, twice with the same         *)
(* arguments, on an index drawn from IndexStates                           *)
(***************************************************************************)

\* most identities in a generated index
MaxIds == 2

IdPool ==
    {ArnDeploy, ArnAlice, <<>>}

LabelPool ==
    {LabelS3Get, LabelEc2Run, LabelIamList}

\* indexes the workers can build: distinct keys, non-empty action sets
IndexStates ==
    {d \in SeqsUpTo([arn : IdPool, actions : (SUBSET LabelPool) \ {{}}], MaxIds) :
        \A i, j \in 1..Len(d) : i # j => d[i].arn # d[j].arn}

MergeInit ==
    /\ RunInit
    /\ call \in {[pc |-> "merge_call", d0 |-> d, arn |-> a, action |-> l,
                  d1 |-> <<>>, d2 |-> <<>>] :
                    d \in IndexStates, a \in IdPool, l \in LabelPool}

\* lines 45-48, first time
MergeCall ==
    /\ call.pc = "merge_call"
    /\ call' = [call EXCEPT !.pc = "merge_again",
                            !.d1 = merge(call.d0, call.arn, call.action)]
    /\ UNCHANGED run_vars

\* lines 45-48, second time with the same arn and action
MergeAgain ==
    /\ call.pc = "merge_again"
    /\ call' = [call EXCEPT !.pc = "merge_ret",
                            !.d2 = merge(call.d1, call.arn, call.action)]
    /\ UNCHANGED run_vars

MergeNext ==
    \/ MergeCall
    \/ MergeAgain

SpecMerge ==
    MergeInit /\ [][MergeNext]_vars

(***************************************************************************)
(* Vocabulary of the properties                                            *)
(***************************************************************************)

\* the (arn, action) pairs an index holds
IndexPairs(d) ==
    UNION {{<<d[j].arn, l>> : l \in d[j].actions} : j \in 1..Len(d)}

\* a record without userIdentity or without userIdentity.arn
LacksIdentity(r) ==
    ~r.hasUserIdentity \/ ~r.hasArn

\* a record from which an (arn, action) pair can be built
Complete(r) ==
    ~LacksIdentity(r) /\ r.hasEventSource /\ r.hasEventName

\* per object of the store: the pairs of the complete records of its document
StoreObjectPairs ==
    [n \in 1..Len(Store) |->
        LET records == IF Store[n].body.hasRecords
                       THEN Store[n].body.Records ELSE <<>>
        IN  {<<fix_arn(records[m].arn), ActionLabel(records[m])>> :
                m \in {m \in 1..Len(records) : Complete(records[m])}}]

\* the pairs of the complete records of a listed object's document
ObjectPairs(i) ==
    StoreObjectPairs[logs_list[i]]

\* the pairs of the records that precede the first record that raises
RECURSIVE PairsBeforeError(_)
PairsBeforeError(records) ==
    IF records = <<>> THEN {}
    ELSE IF LacksIdentity(Head(records)) THEN PairsBeforeError(Tail(records))
    ELSE IF ~Complete(Head(records)) THEN {}
    ELSE {<<fix_arn(Head(records).arn), ActionLabel(Head(records))>>}
             \cup PairsBeforeError(Tail(records))

\* per object of the store: the pairs a run of process_log_object on it
\* merges, none when the key is filtered out or nothing can be loaded
StoreContribution ==
    [n \in 1..Len(Store) |->
        IF ~Contains(Store[n].Key, JsonGz)
           \/ Contains(Lower(Store[n].Key), Digest)
           \/ ~Store[n].body.hasRecords
        THEN {}
        ELSE PairsBeforeError(Store[n].body.Records)]

\* per object of the store: is its key one the claims call eligible
StoreEligible ==
    [n \in 1..Len(Store) |->
        EndsWith(Store[n].Key, JsonGz)
            /\ ~Contains(Lower(Store[n].Key), Digest)]

\* per object of the store: does line 67 let it through
StorePassesFilter ==
    [n \in 1..Len(Store) |->
        Contains(Store[n].Key, JsonGz)
            /\ ~Contains(Lower(Store[n].Key), Digest)]

\* the key of listed object i ends in ".json.gz" and does not name a digest
Eligible(i) ==
    StoreEligible[logs_list[i]]

\* listed object i gets past line 67
PassesFilter(i) ==
    StorePassesFilter[logs_list[i]]

\* every listed object was submitted and its task has ended, and the index
\* has not yet been filtered for the report
AllFinished ==
    /\ main_pc \in {"collect", "shutdown", "filter", "crashed"}
    /\ main_exc # "listing"
    /\ Len(futures) = Len(logs_list)
    /\ \A i \in 1..Len(futures) : futures[i] \in Finished

(***************************************************************************)
(* C1: a failure of one object never escapes the coordinator: main() never *)
(* ends with the exception of a task, it goes on to print the report.      *)
(***************************************************************************)
C1_PerObjectFailureContained ==
    ~(main_pc = "crashed" /\ main_exc = "task")

(***************************************************************************)
(* C2: every listed object is processed exactly once: process_log_object   *)
(* is called at most once per object, and once main() has left the         *)
(* executor, also after a task failed, every object has been run once,     *)
(* every object that passes the key filter has been downloaded once and    *)
(* every downloaded document has been extracted once.                      *)
(***************************************************************************)
C2_ProcessedExactlyOnce ==
    /\ \A i \in 1..Len(futures) :
          /\ run_count[i] <= 1
          /\ fetch_count[i] <= 1
          /\ extract_count[i] <= 1
          /\ futures[i] \in Finished =>
                /\ run_count[i] = 1
                /\ fetch_count[i] = IF PassesFilter(i) THEN 1 ELSE 0
                /\ extract_count[i] =
                      IF PassesFilter(i)
                         /\ Object(i).body.kind # "fetch_error" THEN 1 ELSE 0
    /\ (main_pc \in {"filter", "print", "done"}
           \/ (main_pc = "crashed" /\ main_exc = "task")) =>
          /\ Len(futures) = Len(logs_list)
          /\ \A i \in 1..Len(futures) : futures[i] \in Finished

\* main() ended with the exception of one task, another object was
\* downloaded, extracted and merged all the same
C2_Witness ==
    /\ main_pc = "crashed"
    /\ main_exc = "task"
    /\ \E i, j \in 1..Len(futures) :
          /\ futures[i] = "finished_exc"
          /\ futures[j] = "finished_ok"
          /\ i < j
          /\ fetch_count[j] = 1
          /\ extract_count[j] = 1
          /\ merged[j] # {}

(***************************************************************************)
(* C3: no merge is lost: once all tasks have ended, the index holds        *)
(* exactly the pairs that were merged, one entry per arn, and these are    *)
(* the pairs the documents of the listing determine, whatever the          *)
(* interleaving was.                                                       *)
(***************************************************************************)
C3_NoLostMerge ==
    AllFinished =>
        /\ IndexPairs(ALL_ACTIONS) = UNION {merged[i] : i \in 1..Len(merged)}
        /\ IndexPairs(ALL_ACTIONS) =
              UNION {StoreContribution[logs_list[i]] : i \in 1..Len(logs_list)}
        /\ \A i, j \in 1..Len(ALL_ACTIONS) :
              i # j => ALL_ACTIONS[i].arn # ALL_ACTIONS[j].arn

\* two workers, two objects that merged different actions for one arn
C3_Witness ==
    /\ AllFinished
    /\ main_pc = "filter"
    /\ threads = 2
    /\ \E i, j \in 1..Len(merged) :
          /\ i # j
          /\ \E p \in merged[i], q \in merged[j] : p[1] = q[1] /\ p[2] # q[2]
          /\ \E e \in 1..Len(ALL_ACTIONS) : Cardinality(ALL_ACTIONS[e].actions) >= 2

(***************************************************************************)
(* C4: a step of a worker never removes an arn from the index and never    *)
(* makes the action set of an arn smaller.                                 *)
(***************************************************************************)
C4_ActionSetsOnlyGrow ==
    [][(\E w \in Workers : WorkerStep(w)) =>
          \A k \in DictKeys(ALL_ACTIONS) :
              /\ DictHas(ALL_ACTIONS', k)
              /\ DictItem(ALL_ACTIONS, k) \subseteq DictItem(ALL_ACTIONS', k)]_vars

\* while tasks are being collected an arn has two actions: a set has grown
C4_Witness ==
    /\ main_pc = "collect"
    /\ \E j \in 1..Len(ALL_ACTIONS) : Cardinality(ALL_ACTIONS[j].actions) >= 2
    /\ \E w \in Workers : worker[w].pc = "release"

(***************************************************************************)
(* C5: an object whose processing raised contributes nothing: once all     *)
(* tasks have ended, a pair of a failed object is in the index only if a   *)
(* successful object has it too.                                           *)
(***************************************************************************)
C5_FailedObjectContributesNothing ==
    AllFinished =>
        \A i \in 1..Len(futures) :
            futures[i] = "finished_exc" =>
                \A p \in ObjectPairs(i) \cap IndexPairs(ALL_ACTIONS) :
                    \E j \in 1..Len(futures) :
                        /\ futures[j] = "finished_ok"
                        /\ PassesFilter(j)
                        /\ p \in ObjectPairs(j)

(***************************************************************************)
(* C6: every key of the index is a non-empty string and every action set   *)
(* is non-empty.                                                           *)
(***************************************************************************)
C6_KeysAndSetsNonEmpty ==
    \A j \in 1..Len(ALL_ACTIONS) :
        /\ ALL_ACTIONS[j].arn # <<>>
        /\ ALL_ACTIONS[j].actions # {}

(***************************************************************************)
(* C7: an object is downloaded only if its key ends in ".json.gz" and does *)
(* not name a digest; any other object is skipped without error, and every *)
(* object with such a key is downloaded.                                   *)
(***************************************************************************)
C7_FetchOnlyEligibleKeys ==
    \A i \in 1..Len(futures) :
        /\ fetch_count[i] > 0 => Eligible(i)
        /\ (futures[i] \in Finished /\ ~Eligible(i)) =>
              futures[i] = "finished_ok"
        /\ (futures[i] \in Finished /\ Eligible(i)) =>
              fetch_count[i] > 0

(***************************************************************************)
(* C8: a record without userIdentity or userIdentity.arn is dropped: the   *)
(* step that meets it changes neither the index nor any future and moves   *)
(* on to the next record; a document whose other records are complete      *)
(* ends without error, having merged exactly the pairs of those records    *)
(* (none for a document without Records).                                  *)
(***************************************************************************)
C8_DroppedRecordStep ==
    \A w \in Workers :
        (/\ worker[w].pc = "record"
         /\ worker[w].idx <= Len(RecordsOf(worker[w].obj))
         /\ LacksIdentity(RecordsOf(worker[w].obj)[worker[w].idx])
         /\ worker'[w] # worker[w]) =>
            /\ ALL_ACTIONS' = ALL_ACTIONS
            /\ futures' = futures
            /\ merged' = merged
            /\ worker'[w] = [worker[w] EXCEPT !.idx = worker[w].idx + 1]

C8_DroppedRecordDocument ==
    \A i \in 1..Len(futures) :
        (/\ futures[i] \in Finished
         /\ extract_count[i] = 1
         /\ Object(i).body.kind = "doc"
         /\ \A n \in 1..Len(RecordsOf(i)) :
               LacksIdentity(RecordsOf(i)[n]) \/ Complete(RecordsOf(i)[n])) =>
            /\ futures[i] = "finished_ok"
            /\ merged[i] = ObjectPairs(i)
            /\ ~Object(i).body.hasRecords => merged[i] = {}

C8_MissingIdentityDropped ==
    []C8_DroppedRecordDocument /\ [][C8_DroppedRecordStep]_vars

\* a document ended without error in which a record without identity
\* precedes a record whose pair is now in the index
C8_Witness ==
    \E i \in 1..Len(futures) :
        /\ futures[i] = "finished_ok"
        /\ \E a, b \in 1..Len(RecordsOf(i)) :
              /\ a < b
              /\ LacksIdentity(RecordsOf(i)[a])
              /\ Complete(RecordsOf(i)[b])
              /\ <<fix_arn(RecordsOf(i)[b].arn), ActionLabel(RecordsOf(i)[b])>>
                    \in merged[i] \cap IndexPairs(ALL_ACTIONS)

(***************************************************************************)
(* C9: for an arn that starts with "arn:aws:sts::" fix_arn returns the arn *)
(* with that prefix turned into "arn:aws:iam::", "assumed-role" turned     *)
(* into "role" in the resource type, and exactly two "/"-separated         *)
(* segments: the one with the resource type and the role name as it was;   *)
(* any other arn is returned unchanged.                                    *)
(***************************************************************************)
C9_FixArnCanonical ==
    call.pc = "fix_ret" =>
        IF StartsWith(call.arn, StsPrefix)
        THEN LET rest == SubSeq(call.arn, Len(StsPrefix) + 1, Len(call.arn))
                 segs == Split(IamPrefix \o rest, "/")
             IN  /\ Len(Split(call.out, "/")) = 2
                 /\ call.out = Replace(segs[1], AssumedRole, Role)
                                  \o <<"/">> \o segs[2]
        ELSE call.out = call.arn

(***************************************************************************)
(* C10: merge is an idempotent union-insert: a new arn gets the singleton  *)
(* of the action, a known arn gets the action added to its set, no other   *)
(* entry changes, and a second merge of the same pair changes nothing.     *)
(***************************************************************************)
C10_MergeIdempotentUnion ==
    call.pc = "merge_ret" =>
        /\ DictKeys(call.d1) = DictKeys(call.d0) \cup {call.arn}
        /\ Len(call.d1) = Cardinality(DictKeys(call.d1))
        /\ DictItem(call.d1, call.arn) =
              (IF DictHas(call.d0, call.arn)
               THEN DictItem(call.d0, call.arn) ELSE {}) \cup {call.action}
        /\ \A k \in DictKeys(call.d0) \ {call.arn} :
              DictItem(call.d1, k) = DictItem(call.d0, k)
        /\ call.d2 = call.d1

\* the action was new for a known arn of an index with another arn in it
C10_Witness ==
    /\ call.pc = "merge_ret"
    /\ Len(call.d0) = 2
    /\ DictHas(call.d0, call.arn)
    /\ call.action \notin DictItem(call.d0, call.arn)
    /\ Cardinality(DictItem(call.d2, call.arn)) >= 2

(***************************************************************************)
(* C11: the report holds exactly the arns of the index the workers filled  *)
(* that contain the filter name (all of them without a filter name), each  *)
(* once and with all its actions in ascending order, and neither filtering *)
(* nor printing changes the dict object the workers filled.                *)
(***************************************************************************)
C11_ReportContents ==
    main_pc = "done" =>
        LET selected == {k \in DictKeys(index_object) :
                            target_name = <<>> \/ Contains(k, target_name)}
        IN  /\ {output[j].arn : j \in 1..Len(output)} = selected
            /\ Len(output) = Cardinality(selected)
            /\ \A j \in 1..Len(output) :
                  /\ {output[j].actions[n] : n \in 1..Len(output[j].actions)}
                        = DictItem(index_object, output[j].arn)
                  /\ \A m, n \in 1..Len(output[j].actions) :
                        m < n => StrLess(output[j].actions[m],
                                         output[j].actions[n])

C11_IndexObjectKept ==
    main_pc \in {"filter", "print", "done"} => index_object' = index_object

C11_ReportFilter ==
    []C11_ReportContents /\ [][C11_IndexObjectKept]_vars

\* a report for the filter "Deploy" that leaves out one of two arns and
\* lists two actions for the other
C11_Witness ==
    /\ main_pc = "done"
    /\ target_name = NameDeploy
    /\ Len(index_object) = 2
    /\ Len(output) = 1
    /\ Len(output[1].actions) = 2

(***************************************************************************)
(* C12: listing is all-or-nothing and its failure is fatal: once the store *)
(* has rejected a page, main() has ended with that error, the objects      *)
(* listed so far are gone, nothing was submitted, downloaded, merged or    *)
(* printed, and nothing happens any more; and while the listing is still   *)
(* going on, nothing has been submitted, downloaded or merged.             *)
(***************************************************************************)
C12_NothingProcessed ==
    /\ futures = <<>>
    /\ work_queue = <<>>
    /\ fetch_count = <<>>
    /\ merged = <<>>
    /\ ALL_ACTIONS = <<>>
    /\ index_object = <<>>
    /\ output = <<>>
    /\ \A w \in Workers : worker[w] = IdleWorker

C12_ListingState ==
    /\ main_exc = "listing" =>
          /\ main_pc = "crashed"
          /\ logs_list = <<>>
          /\ C12_NothingProcessed
    /\ main_pc = "list" => C12_NothingProcessed

C12_ListingAllOrNothing ==
    []C12_ListingState /\ [][main_exc # "listing"]_vars

\* the store rejected a page after another page had been received
C12_Witness ==
    /\ main_exc = "listing"
    /\ main_pc = "crashed"
    /\ pages_read >= 1
    /\ logs_list = <<>>

(***************************************************************************)
(* C13: at most --threads objects are being processed at the same time:    *)
(* never more busy workers or running tasks than max_workers, each busy    *)
(* worker holds one running task of its own, and a worker lets go of its   *)
(* task only when the task has ended (returned or raised).                 *)
(***************************************************************************)
C13_AtMostNRunning ==
    /\ Cardinality({w \in Workers : worker[w].pc # "idle"}) <= threads
    /\ Cardinality({i \in 1..Len(futures) : futures[i] = "running"}) <= threads
    /\ \A w \in Workers :
          worker[w].pc # "idle" =>
              /\ worker[w].obj \in 1..Len(futures)
              /\ futures[worker[w].obj] = "running"
              /\ \A v \in Workers \ {w} : worker[v].obj # worker[w].obj
    /\ \A i \in 1..Len(futures) :
          futures[i] = "running" => \E w \in Workers : worker[w].obj = i

C13_TaskRunToCompletion ==
    \A w \in Workers :
        (worker[w].obj # 0 /\ worker'[w].obj # worker[w].obj) =>
            /\ worker'[w].obj = 0
            /\ futures'[worker[w].obj] \in Finished

C13_BoundedConcurrency ==
    []C13_AtMostNRunning /\ [][C13_TaskRunToCompletion]_vars

\* with one thread, a submitted object waits while the other is processed
C13_Witness ==
    /\ threads = 1
    /\ worker[1].pc = "check"
    /\ work_queue # <<>>
    /\ Len(futures) = 2

(***************************************************************************)
(* C14: merges are mutually exclusive: at most one worker is between       *)
(* acquiring and releasing the semaphore, which has a single permit, and   *)
(* the answer a worker got from its lookup of line 45 is still the answer  *)
(* when it inserts: nobody changed the index in between.                   *)
(***************************************************************************)
C14_MergeMutualExclusion ==
    LET inside == {w \in Workers : worker[w].pc \in {"check", "insert", "release"}}
    IN  /\ Cardinality(inside) <= 1
        /\ semaphore \in {0, 1}
        /\ semaphore + Cardinality(inside) = 1
        /\ \A w \in Workers :
              worker[w].pc = "insert" =>
                  worker[w].found = DictGetTruthy(ALL_ACTIONS, worker[w].arn)

\* a worker is about to insert while another waits at the semaphore with a
\* pair for the same arn
C14_Witness ==
    \E w, v \in Workers :
        /\ worker[w].pc = "insert"
        /\ worker[v].pc = "acquire"
        /\ worker[v].arn = worker[w].arn
        /\ semaphore = 0

(***************************************************************************)
(* C15: the index is read (lines 98-109) only when no merge can happen any *)
(* more: from the filter step on, every listed object has been submitted   *)
(* and has ended, no task is queued, no worker is busy and nothing is      *)
(* merged; and after the exception of a task the index is not read at all. *)
(***************************************************************************)
C15_ReadingState ==
    /\ main_pc \in {"filter", "print", "done"} =>
          /\ main_exc = "none"
          /\ Len(futures) = Len(logs_list)
          /\ \A i \in 1..Len(futures) : futures[i] \in Finished
          /\ work_queue = <<>>
          /\ \A w \in Workers : worker[w] = IdleWorker
          /\ semaphore = 1
    /\ main_exc = "task" =>
          /\ main_pc \in {"shutdown", "crashed"}
          /\ output = <<>>
          /\ target_name = <<>>

C15_NoMergeWhileReading ==
    main_pc \in {"filter", "print", "done"} =>
        /\ merged' = merged
        /\ worker' = worker
        /\ futures' = futures

C15_ReadAfterAllMerges ==
    []C15_ReadingState /\ [][C15_NoMergeWhileReading]_vars

\* the report was printed from an index two objects had merged into
C15_Witness ==
    /\ main_pc = "done"
    /\ Len(futures) = 2
    /\ \A i \in 1..Len(futures) : merged[i] # {}
    /\ output # <<>>

(***************************************************************************)
(* C16: the run is deadlock-free and terminates: a worker that holds the   *)
(* semaphore can always take its next step, the permit is back whenever no *)
(* worker is inside the merge section, and under fair scheduling every     *)
(* submitted object eventually ends and main() eventually ends, with the   *)
(* report or with an exception.                                            *)
(***************************************************************************)
C16_LockNeverHeldWaiting ==
    /\ \A w \in Workers :
          worker[w].pc \in {"check", "insert", "release"} =>
              ENABLED WorkerStep(w)
    /\ (\A w \in Workers : worker[w].pc \notin {"check", "insert", "release"})
          => semaphore = 1

C16_Ended ==
    /\ main_pc \in {"done", "crashed"}
    /\ \A i \in 1..Len(futures) : futures[i] \in Finished
    /\ \A w \in Workers : worker[w] = IdleWorker
    /\ semaphore = 1

\* a submitted task stays submitted and an ended task stays ended, so the
\* tasks that have ended when main() ends are all that were ever submitted
C16_FuturesKept ==
    /\ Len(futures') >= Len(futures)
    /\ \A i \in 1..Len(futures) :
          futures[i] \in Finished => futures'[i] = futures[i]

C16_Terminates ==
    /\ []C16_LockNeverHeldWaiting
    /\ [][C16_FuturesKept]_vars
    /\ <>C16_Ended

\* main() has ended after a task that had merged a pair raised on a later
\* record; the permit is back
C16_Witness ==
    /\ C16_Ended
    /\ main_exc = "task"
    /\ \E i \in 1..Len(futures) : futures[i] = "finished_exc" /\ merged[i] # {}

(***************************************************************************)
(* C17: the keys of the index are canonical: no key, and no arn a worker   *)
(* is about to merge, starts with "arn:aws:sts::", fix_arn maps every key  *)
(* to itself, no two entries have the same key, and the records of the     *)
(* role Deploy, whatever their session name, are under the one key         *)
(* "arn:aws:iam::111122223333:role/Deploy".                                *)
(***************************************************************************)
C17_KeysCanonical ==
    /\ \A j \in 1..Len(ALL_ACTIONS) :
          /\ ~StartsWith(ALL_ACTIONS[j].arn, StsPrefix)
          /\ fix_arn(ALL_ACTIONS[j].arn) = ALL_ACTIONS[j].arn
          /\ StartsWith(ALL_ACTIONS[j].arn, ArnDeploy) =>
                ALL_ACTIONS[j].arn = ArnDeploy
          /\ \A k \in 1..Len(ALL_ACTIONS) :
                ALL_ACTIONS[k].arn = ALL_ACTIONS[j].arn => k = j
    /\ \A w \in Workers :
          worker[w].pc \in {"acquire", "check", "insert", "release"} =>
              ~StartsWith(worker[w].arn, StsPrefix)
    /\ \A i \in 1..Len(merged) : \A p \in merged[i] :
          ~StartsWith(p[1], StsPrefix)

\* two records of one object with different session names of the role
\* Deploy have been merged, their actions are in the one entry of the index
C17_Witness ==
    /\ Len(ALL_ACTIONS) = 1
    /\ ALL_ACTIONS[1].arn = ArnDeploy
    /\ Cardinality(ALL_ACTIONS[1].actions) = 2
    /\ \E i \in 1..Len(futures) :
          /\ futures[i] = "finished_ok"
          /\ \E a, b \in 1..Len(RecordsOf(i)) :
                /\ RecordsOf(i)[a].arn = ArnSess1
                /\ RecordsOf(i)[b].arn = ArnSess2
                /\ Cardinality(merged[i]) = 2

=============================================================================
